---- MODULE Spec2Model ----
(***************************************************************************)
(* A model of the UAVCAN v0 library uavcan.rs: the frame generator of the  *)
(* core crate (src/src/frame_generator.rs), the node facade and its        *)
(* subscriber (src/uavcan/src/node.rs) and the transfer layer types        *)
(* (src/uavcan/src/transfer.rs).                                           *)
(***************************************************************************)
EXTENDS Integers, Sequences, FiniteSets, TLC

VARIABLES
    body,       \* the serialized body handed to the frame generator: [bits, bytes]
    fg,         \* FrameGenerator: [serializer, started, id, toggle, transfer_id]
    emitted,    \* the frames next_transport_frame has returned so far, in order
    ret,        \* what the last next_transport_frame call returned: "none yet", "Some", "None"
    noneCalls,  \* how many calls have returned None
    config_id,  \* NodeConfig.id of the node: <<>> is None, <<n>> is Some(NodeID(n))
    txq,        \* the frames the transfer interface holds for transmission, oldest first
    bop,        \* the last operation on the transmit side: "none yet", "broadcast", "bus"
    bmsg,       \* the message of the last broadcast
    blog,       \* the transmit calls of the last broadcast, in order: [frame, ok]
    bresult,    \* what the last broadcast returned: "none yet", "Ok", "Err", "panic"
    tids,       \* per message type, the transfer ids of its last two broadcasts
    rxbuf,      \* the frames buffered for the subscriber, in arrival order
    rop,        \* the last operation on the receive side: "none yet", "arrive", "receive"
    onbus,      \* per transfer on the bus, how many of its frames the bus has carried
    rxprev,     \* the buffered frames the last Subscriber::receive started from
    rret,       \* what the last Subscriber::receive returned
    cin,        \* the arguments of an encoding or decoding function of the two crates
    cout        \* what the function returned for them

fgVars == <<body, fg, emitted, ret, noneCalls>>

txVars == <<config_id, txq, bop, bmsg, blog, bresult, tids>>

rxVars == <<rxbuf, rop, onbus, rxprev, rret>>

cVars == <<cin, cout>>

vars == <<fgVars, txVars, rxVars, cVars>>

-----------------------------------------------------------------------------
(* Bounds of the model *)

\* the longest body, in bits (more than three full frames of payload)
MaxBodyBits == 160

\* how many calls returning None are followed
MaxNoneCalls == 2

\* how many frames the transfer interface buffers for transmission
TxCapacity == 4

\* how many frames the subscriber buffers
RxCapacity == 5

-----------------------------------------------------------------------------
(* Arithmetic helpers *)

Min(a, b) == IF a < b THEN a ELSE b

Max(a, b) == IF a < b THEN b ELSE a

Pow2(n) == 2 ^ n

CeilDiv(a, b) == (a + b - 1) \div b

\* bitwise and of two naturals
And[a \in Nat, b \in Nat] ==
    IF a = 0 \/ b = 0 THEN 0
    ELSE ((a % 2) * (b % 2)) + 2 * And[a \div 2, b \div 2]

\* bitwise or of two naturals
Or[a \in Nat, b \in Nat] ==
    IF a = 0 THEN b
    ELSE IF b = 0 THEN a
    ELSE (IF (a % 2) + (b % 2) > 0 THEN 1 ELSE 0) + 2 * Or[a \div 2, b \div 2]

\* bitwise exclusive or of two naturals
Xor[a \in Nat, b \in Nat] ==
    IF a = 0 THEN b
    ELSE IF b = 0 THEN a
    ELSE (((a % 2) + (b % 2)) % 2) + 2 * Xor[a \div 2, b \div 2]

-----------------------------------------------------------------------------
(* The tail byte of the core crate, src/src/lib.rs *)

\* struct TailByte
TailByte(sot, eot, toggle, tid) ==
    [start_of_transfer |-> sot, end_of_transfer |-> eot, toggle |-> toggle, transfer_id |-> tid]

BoolAsU8(b) == IF b THEN 1 ELSE 0

\* impl From<TailByte> for u8:
\* (sot as u8) << 7 | (eot as u8) << 6 | (toggle as u8) << 5 | (transfer_id & 0x1f)
TailByteIntoU8(tb) ==
    Or[Or[Or[BoolAsU8(tb.start_of_transfer) * Pow2(7),
             BoolAsU8(tb.end_of_transfer) * Pow2(6)],
          BoolAsU8(tb.toggle) * Pow2(5)],
       And[tb.transfer_id, 31]]

\* impl From<u8> for TailByte: the toggle is read with the mask 1 << 6
TailByteFromU8(u) ==
    TailByte(And[u, Pow2(7)] # 0, And[u, Pow2(6)] # 0, And[u, Pow2(6)] # 0, And[u, 31])

-----------------------------------------------------------------------------
(* The tail byte accessors of the transfer layer, src/uavcan/src/transfer.rs *)

\* TailByte::start_of_transfer: value & (1 << 7) != 0
start_of_transfer(value) == And[value, Pow2(7)] # 0

\* TailByte::end_of_transfer: value & (1 << 6) != 0
end_of_transfer(value) == And[value, Pow2(6)] # 0

\* TailByte::toggle: value & (1 << 5) != 0
toggle(value) == And[value, Pow2(5)] # 0

\* TailByte::transfer_id: TransferID::new(value & 0x1f)
transfer_id(value) == And[value, 31]

-----------------------------------------------------------------------------
(* Frame identifiers of the core crate, src/src/lib.rs *)

\* MessageFrameHeader::to_id with the priority shifted by 26
MessageFrameHeader_to_id_shift26(priority, type_id, source_node) ==
    Or[Or[And[priority * Pow2(26), 31 * Pow2(24)],
          And[type_id * Pow2(8), 65535 * Pow2(8)]],
       And[source_node, 127]]

\* MessageFrameHeader::to_id:
\* (priority << 24) & 0x1f000000 | (type_id << 8) & 0x00ffff00 | (0 << 7) | source_node & 0x7f
MessageFrameHeader_to_id(priority, type_id, source_node) ==
    Or[Or[And[priority * Pow2(24), 31 * Pow2(24)],
          And[type_id * Pow2(8), 65535 * Pow2(8)]],
       And[source_node, 127]]

\* ServiceFrameHeader::to_id without the 1 << 7 term
ServiceFrameHeader_to_id_no_service_bit(priority, type_id, request, destination_node, source_node) ==
    Or[Or[Or[Or[And[priority * Pow2(24), 31 * Pow2(24)],
                And[type_id * Pow2(16), 255 * Pow2(16)]],
             BoolAsU8(request) * Pow2(15)],
          And[destination_node * Pow2(8), 127 * Pow2(8)]],
       And[source_node, 127]]

\* ServiceFrameHeader::to_id:
\* (priority << 24) & 0x1f000000 | (type_id << 16) & 0x00ff0000
\*    | (request_not_response << 15) | (destination_node << 8) & 0x00007f00
\*    | (1 << 7) | (source_node << 0) & 0x0000007f
ServiceFrameHeader_to_id(priority, type_id, request, destination_node, source_node) ==
    Or[Or[Or[Or[Or[And[priority * Pow2(24), 31 * Pow2(24)],
                   And[type_id * Pow2(16), 255 * Pow2(16)]],
                BoolAsU8(request) * Pow2(15)],
             And[destination_node * Pow2(8), 127 * Pow2(8)]],
          Pow2(7)],
       And[source_node, 127]]

\* AnonymousFrameHeader::to_id:
\* (priority << 24) & 0x1f000000 | (discriminator << 10) & 0x00fffc00
\*    | (type_id << 10) & 0x00000300 | (0 << 7)
AnonymousFrameHeader_to_id(priority, discriminator, type_id) ==
    Or[Or[And[priority * Pow2(24), 31 * Pow2(24)],
          And[discriminator * Pow2(10), 16383 * Pow2(10)]],
       And[type_id * Pow2(10), 3 * Pow2(8)]]

-----------------------------------------------------------------------------
(* Transport CRC: CRC-16-CCITT, polynomial 0x1021, initial value 0xFFFF *)

CrcPoly == 4129

CrcInit == 65535

\* n steps of the shift register: shift left, xor the polynomial in when a 1 leaves
CrcShift[crc \in Nat, n \in Nat] ==
    IF n = 0 THEN crc
    ELSE CrcShift[IF crc >= 32768
                  THEN Xor[(2 * crc) % 65536, CrcPoly]
                  ELSE 2 * crc,
                  n - 1]

\* one byte enters at the high end of the register
CrcAddByte[crc \in Nat, byte \in Nat] == CrcShift[Xor[crc, byte * 256], 8]

\* the CRC of a byte sequence
TransportCRC(bytes) ==
    LET c[i \in 0..Len(bytes)] ==
            IF i = 0 THEN CrcInit ELSE CrcAddByte[c[i - 1], bytes[i]]
    IN c[Len(bytes)]

-----------------------------------------------------------------------------
(* The bit serializer the frame generator drives *)

\* Serializer::from_structure: a cursor at bit 0 of the serialized body
Serializer_from_structure(b) == [bits |-> b.bits, bytes |-> b.bytes, pos |-> 0]

\* Serializer::remaining_bits
remaining_bits(s) == s.bits - s.pos

\* Serializer::serialize into a buffer of n bytes: writes the next bits of the
\* body from bit 0 of the buffer, Finished(i) when the body ends in it and
\* BufferFull(i) otherwise; the cursor stays byte aligned as every buffer the
\* generator hands in is filled whole unless the body ends
serialize(s, buf) ==
    LET n       == Len(buf)
        written == Min(remaining_bits(s), 8 * n)
        nbytes  == (written + 7) \div 8
        first   == s.pos \div 8
    IN [kind       |-> IF remaining_bits(s) <= 8 * n THEN "Finished" ELSE "BufferFull",
        i          |-> written,
        buf        |-> [j \in 1..n |-> IF j <= nbytes THEN s.bytes[first + j] ELSE buf[j]],
        serializer |-> [s EXCEPT !.pos = s.pos + written]]

-----------------------------------------------------------------------------
(* The frame generator, src/src/frame_generator.rs *)

\* TransportFrame::max_data_length of a CAN 2.0B frame
MAX_DATA_LENGTH == 8

\* T::with_length(id, length): a frame of `length` zeroed data bytes
with_length(id, length) == [id |-> id, data |-> [j \in 1..length |-> 0]]

\* data_as_mut()[lo..hi] = bytes (Rust's half-open, zero-based range)
WriteSlice(data, lo, bytes) ==
    [j \in 1..Len(data) |->
        IF j > lo /\ j <= lo + Len(bytes) THEN bytes[j - lo] ELSE data[j]]

\* FrameGenerator::from_uavcan_frame
from_uavcan_frame(id, b, tid) ==
    [serializer  |-> Serializer_from_structure(b),
     started     |-> FALSE,
     id          |-> id,
     toggle      |-> FALSE,
     transfer_id |-> tid]

\* first_of_multi_frame with >= for >: a body of exactly P-1 bytes is split
first_of_multi_frame_ge(g) ==
    ~g.started /\ remaining_bits(g.serializer) >= (MAX_DATA_LENGTH - 1) * 8

\* let first_of_multi_frame = !self.started && (remaining_bits > max_payload_length*8)
first_of_multi_frame(g) ==
    ~g.started /\ remaining_bits(g.serializer) > (MAX_DATA_LENGTH - 1) * 8

\* the frame length without the byte for the tail
frame_length_without_tail(i) == (i + 7) \div 8

\* let frame_length = (i+7)/8 + 1
frame_length(i) == (i + 7) \div 8 + 1

\* the tail byte written in the first_of_multi_frame branch
FirstTail(g) == TailByteIntoU8(TailByte(~g.started, FALSE, g.toggle, g.transfer_id))

\* the tail byte written in the Finished branch
LastTail(g) == TailByteIntoU8(TailByte(~g.started, TRUE, g.toggle, g.transfer_id))

\* the updates of a call, with the transfer id stepped as well
Advance_next_transfer_id(g, s) == [g EXCEPT !.serializer = s, !.started = TRUE, !.toggle = ~g.toggle, !.transfer_id = (g.transfer_id + 1) % 32]

\* self.started = true; self.toggle = !self.toggle
Advance(g, s) == [g EXCEPT !.serializer = s, !.started = TRUE, !.toggle = ~g.toggle]

\* the None return placed after the started and toggle updates
NoneReturnedLate(g, frame) ==
    [some |-> FALSE, frame |-> frame, gen |-> Advance(g, g.serializer)]

\* if remaining_bits == 0 { return None; }: the generator is left as it was
NoneReturned(g, frame) == [some |-> FALSE, frame |-> frame, gen |-> g]

\* FrameGenerator::next_transport_frame: [some, frame, gen]
next_transport_frame(g) ==
    LET max_data_length == MAX_DATA_LENGTH
        transport_frame == with_length(g.id, max_data_length)
    IN IF remaining_bits(g.serializer) = 0
       THEN NoneReturned(g, transport_frame)
       ELSE IF first_of_multi_frame(g)
       THEN LET r == serialize(g.serializer,
                               SubSeq(transport_frame.data, 3, max_data_length - 1))
                d == WriteSlice(transport_frame.data, 2, r.buf)
            IN [some  |-> TRUE,
                frame |-> [transport_frame EXCEPT
                              !.data = [d EXCEPT ![max_data_length] = FirstTail(g)]],
                gen   |-> Advance(g, r.serializer)]
       ELSE LET r == serialize(g.serializer,
                               SubSeq(transport_frame.data, 1, max_data_length - 1))
                d == WriteSlice(transport_frame.data, 0, r.buf)
            IN IF r.kind = "Finished"
               THEN [some  |-> TRUE,
                     frame |-> [transport_frame EXCEPT
                                   !.data = SubSeq([d EXCEPT ![frame_length(r.i)] = LastTail(g)],
                                                   1, frame_length(r.i))],
                     gen   |-> Advance(g, r.serializer)]
               ELSE [some  |-> TRUE,
                     frame |-> [transport_frame EXCEPT !.data = d],
                     gen   |-> Advance(g, r.serializer)]

-----------------------------------------------------------------------------
(* Bodies, transfer ids and headers the generator is built from *)

BodySeeds == {0, 1, 250}

\* the serialized body of `bits` bits: byte k is seed + k, the unused high bits
\* of a last partial byte are zero
BodyOf(bits, seed) ==
    [bits  |-> bits,
     bytes |-> [k \in 1..((bits + 7) \div 8) |->
                  LET v == (seed + k - 1) % 256
                  IN IF k * 8 <= bits THEN v ELSE v % Pow2(bits - (k - 1) * 8)]]

TransferIds == {0, 3, 31}

\* NodeStatusHeader::new(0, 32) of type 341
NodeStatusId == MessageFrameHeader_to_id(0, 341, 32)

\* the node and its interface, untouched
TxIdle ==
    /\ config_id = <<>>
    /\ txq = <<>>
    /\ bop = "none yet"
    /\ bmsg = [type_id |-> 0, bytes |-> <<>>]
    /\ blog = <<>>
    /\ bresult = "none yet"
    /\ tids = <<>>

\* no receive result
NoReceive(kind) ==
    [kind |-> kind, body |-> <<>>, transfer_frame_id |-> 0, transfer_id |-> 0,
     error_code |-> "none"]

\* the subscriber, untouched
RxIdle ==
    /\ rxbuf = <<>>
    /\ rop = "none yet"
    /\ onbus = <<>>
    /\ rxprev = <<>>
    /\ rret = NoReceive("none yet")

\* no encoding or decoding function called
CodecIdle ==
    /\ cin = [kind |-> "none"]
    /\ cout = [kind |-> "none"]

FGInit ==
    /\ TxIdle
    /\ RxIdle
    /\ CodecIdle
    /\ \E bits \in 0..MaxBodyBits, seed \in BodySeeds, tid \in TransferIds :
          /\ body = BodyOf(bits, seed)
          /\ fg = from_uavcan_frame(NodeStatusId, BodyOf(bits, seed), tid)
    /\ emitted = <<>>
    /\ ret = "none yet"
    /\ noneCalls = 0

\* one call of next_transport_frame
NextTransportFrame ==
    LET r == next_transport_frame(fg)
    IN /\ r.some \/ noneCalls < MaxNoneCalls
       /\ fg' = r.gen
       /\ ret' = IF r.some THEN "Some" ELSE "None"
       /\ emitted' = IF r.some THEN Append(emitted, r.frame) ELSE emitted
       /\ noneCalls' = IF r.some THEN noneCalls ELSE noneCalls + 1
       /\ UNCHANGED <<body, txVars, rxVars, cVars>>

FGNext == NextTransportFrame

SpecFG == FGInit /\ [][FGNext]_vars

\* the caller keeps calling next_transport_frame
FairSpecFG == SpecFG /\ WF_vars(NextTransportFrame)

-----------------------------------------------------------------------------
(* Properties of the frame generator *)

\* the tail byte of a frame: its last data byte
TailOf(f) == f.data[Len(f.data)]

\* the payload capacity of one frame, in bits: (P-1)*8
PayloadBits == (MAX_DATA_LENGTH - 1) * 8

\* the transfer is multi-frame: its body does not fit one frame
MultiFrame == body.bits > PayloadBits

\* C1: a body of B bits, 0 < B <= (P-1)*8, is emitted as one frame holding the
\* body bytes and then the tail byte SOT=1, EOT=1, Toggle=0 with the transfer
\* id, no CRC bytes, ceil(B/8)+1 data bytes; the call after it returns None.
C1_SingleFrame ==
    (0 < body.bits /\ body.bits <= PayloadBits) =>
        /\ Len(emitted) <= 1
        /\ ret = "Some" => Len(emitted) = 1 /\ noneCalls = 0
        /\ ret = "None" => Len(emitted) = 1
        /\ Len(emitted) = 1 =>
              /\ emitted[1].data = body.bytes \o <<128 + 64 + fg.transfer_id>>
              /\ Len(emitted[1].data) = CeilDiv(body.bits, 8) + 1

\* C1 witness: a body of exactly P-1 bytes was emitted and the next call returned None
C1_Witness ==
    body.bits = PayloadBits /\ Len(emitted) = 1 /\ ret = "None"

\* C2: the toggle bits of the frames of a multi-frame transfer are 0,1,0,1,...
\* in emission order, starting at 0.
C2_ToggleAlternates ==
    MultiFrame =>
        \A k \in 1..Len(emitted) : toggle(TailOf(emitted[k])) = (k % 2 = 0)

\* C3: in a multi-frame transfer every frame carries the transfer id given at
\* construction, SOT=1 on the first frame only and EOT=1 on the last only.
C3_TailFields ==
    MultiFrame =>
        \A k \in 1..Len(emitted) :
            /\ transfer_id(TailOf(emitted[k])) = fg.transfer_id
            /\ start_of_transfer(TailOf(emitted[k])) = (k = 1)
            /\ end_of_transfer(TailOf(emitted[k]))
                   = (k = Len(emitted) /\ remaining_bits(fg.serializer) = 0)

\* C4: the first frame of a multi-frame transfer starts with the transport CRC
\* of the whole body, low byte first; a single-frame transfer has no CRC bytes.
C4_CrcLittleEndian ==
    Len(emitted) >= 1 =>
        IF MultiFrame
        THEN /\ emitted[1].data[1] = TransportCRC(body.bytes) % 256
             /\ emitted[1].data[2] = TransportCRC(body.bytes) \div 256
        ELSE SubSeq(emitted[1].data, 1, Len(emitted[1].data) - 1) = body.bytes

\* the number of frames the framing rule gives a body of b bits
FrameCount(b) ==
    IF b <= PayloadBits THEN 1 ELSE Max(1, CeilDiv(b + 16, PayloadBits))

\* C5: a body of B bits, B = 0 included, is emitted as exactly
\* max(1, ceil((B+16)/((P-1)*8))) frames before None, the 16 CRC bits counted
\* only when more than one frame is needed.
C5_FrameCount ==
    ret = "None" => Len(emitted) = FrameCount(body.bits)

\* C6: the generator is one-shot: None is returned after finitely many frames,
\* and once None was returned every later call returns None and leaves the
\* generator as it is.
C6_OneShot ==
    /\ <>(ret = "None")
    /\ [][ret = "None" => (ret' = "None" /\ fg' = fg /\ emitted' = emitted)]_vars

\* C6 witness: a multi-frame transfer ended and a second call returned None again
C6_Witness ==
    MultiFrame /\ ret = "None" /\ noneCalls = MaxNoneCalls /\ Len(emitted) >= 3

-----------------------------------------------------------------------------
(* The transfer layer, src/uavcan/src/transfer.rs *)

\* TransferID::new: panics unless the value fits 5 bits
TransferID_new(value) == value

\* assert_eq!(value & !0x1f, 0) of TransferID::new fails
TransferID_new_panics(value) == And[value, 255 - 31] # 0

\* TailByte::new with the toggle shifted to bit 6
TailByte_new_toggle_bit6(sot, eot, tog, tid) ==
    Or[Or[Or[BoolAsU8(sot) * Pow2(7), BoolAsU8(eot) * Pow2(6)], BoolAsU8(tog) * Pow2(6)], tid]

\* TailByte::new:
\* (sot as u8) << 7 | (eot as u8) << 6 | (toggle as u8) << 5 | u8::from(transfer_id)
TailByte_new(sot, eot, tog, tid) ==
    Or[Or[Or[BoolAsU8(sot) * Pow2(7), BoolAsU8(eot) * Pow2(6)], BoolAsU8(tog) * Pow2(5)], tid]

\* impl From<u8> for TailByte (transfer layer): the byte is wrapped as it is
TailByte_from_u8(value) == value

\* impl From<TailByte> for u8 (transfer layer): the wrapped byte
u8_from_TailByte(tb) == tb

\* TransferFrame::tail_byte: the last data byte
tail_byte(f) == f.data[Len(f.data)]

\* TransferFrame::is_start_frame
is_start_frame(f) == start_of_transfer(tail_byte(f))

\* TransferFrame::is_end_frame
is_end_frame(f) == end_of_transfer(tail_byte(f))

\* TransferFrame::full_id
full_id(f) == [frame_id |-> f.id, transfer_id |-> transfer_id(tail_byte(f))]

-----------------------------------------------------------------------------
(* Framing of the node crate: Frame::from_message and Version0Framer *)

\* the frame id of a message frame: priority, data type id, source node
Frame_from_message_id(priority, type_id, node_id) ==
    (priority * Pow2(26)) + (type_id * Pow2(8)) + node_id

\* Version0Framer: all the frames next_frame() returns for a body, in order
Version0Framer_frames(id, bytes, tid) ==
    LET payload == MAX_DATA_LENGTH - 1
    IN IF Len(bytes) <= payload
       THEN <<[id |-> id, data |-> bytes \o <<TailByte_new(TRUE, TRUE, FALSE, tid)>>]>>
       ELSE LET crc    == TransportCRC(bytes)
                stream == <<crc % 256, crc \div 256>> \o bytes
                n      == CeilDiv(Len(stream), payload)
            IN [k \in 1..n |->
                  [id   |-> id,
                   data |-> SubSeq(stream, (k - 1) * payload + 1, Min(k * payload, Len(stream)))
                            \o <<TailByte_new(k = 1, k = n, k % 2 = 0, tid)>>]]

-----------------------------------------------------------------------------
(* The node facade, src/uavcan/src/node.rs: broadcast *)

\* the node ids a node is configured with: None, or Some(NodeID::new(32))
ConfigIds == {<<>>, <<32>>}

\* the messages broadcast: a NodeStatus (7 bytes, one frame) and a message of
\* 16 bytes 0..15 (three frames)
Messages ==
    {[type_id |-> 341, bytes |-> <<1, 0, 0, 0, 142, 5, 0>>],
     [type_id |-> 1000, bytes |-> [k \in 1..16 |-> k - 1]]}

TypeIds == {m.type_id : m \in Messages}

\* TransferInterface::transmit: Err when the buffer is full or the driver
\* refuses the call, else the frame is queued
transmit_ok(q, i, refused) == Len(q) < TxCapacity /\ i \notin refused

RECURSIVE TransmitAll(_, _, _, _, _)

\* the ? of transmit(..)? followed by the rest of the loop: the error is swallowed
OnTransmitErrorGoOn(frames, i, q, log, refused) ==
    TransmitAll(frames, i + 1, q, Append(log, [frame |-> frames[i], ok |-> FALSE]), refused)

\* the ? of self.interface.transmit(&can_frame)?: broadcast returns the error
OnTransmitError(frames, i, q, log, refused) ==
    [result |-> "Err", q |-> q, log |-> Append(log, [frame |-> frames[i], ok |-> FALSE])]

\* while let Some(can_frame) = framer.next_frame() { self.interface.transmit(&can_frame)?; } Ok(())
TransmitAll(frames, i, q, log, refused) ==
    IF i > Len(frames)
    THEN [result |-> "Ok", q |-> q, log |-> log]
    ELSE IF transmit_ok(q, i, refused)
    THEN TransmitAll(frames, i + 1, Append(q, frames[i]),
                     Append(log, [frame |-> frames[i], ok |-> TRUE]), refused)
    ELSE OnTransmitError(frames, i, q, log, refused)

\* the transfer ids of the last two broadcasts of a type
LastTwo(seq) == IF Len(seq) > 2 THEN SubSeq(seq, Len(seq) - 1, Len(seq)) ELSE seq

\* the frames broadcast() makes for a message on a node with an id
BroadcastFrames(message, node_id, tid) ==
    Version0Framer_frames(Frame_from_message_id(0, message.type_id, node_id),
                          message.bytes, tid)

\* SimpleNode::broadcast
Broadcast(message) ==
    /\ bresult # "panic"
    /\ bop' = "broadcast"
    /\ bmsg' = message
    /\ LET priority    == 0
           tid         == TransferID_new(0)
       IN IF config_id = <<>>
          THEN \* unimplemented!("Anonymous transfers not implemented")
               /\ bresult' = "panic"
               /\ blog' = <<>>
               /\ UNCHANGED <<txq, tids>>
          ELSE LET frames == Version0Framer_frames(
                                 Frame_from_message_id(priority, message.type_id, config_id[1]),
                                 message.bytes, tid)
               IN \E refused \in SUBSET (1..Len(frames)) :
                     LET r == TransmitAll(frames, 1, txq, <<>>, refused)
                     IN /\ txq' = r.q
                        /\ blog' = r.log
                        /\ bresult' = r.result
                        /\ tids' = [tids EXCEPT ![message.type_id] =
                                       LastTwo(Append(@, tid))]
    /\ UNCHANGED <<config_id, fgVars, rxVars, cVars>>

\* the lowest frame id wins arbitration, the oldest among equal ids
NextOnBus(q) ==
    CHOOSE i \in 1..Len(q) :
        /\ \A j \in 1..Len(q) : q[i].id <= q[j].id
        /\ \A j \in 1..(i - 1) : q[j].id # q[i].id

\* the interface puts its highest priority frame on the bus
BusTransmit ==
    /\ bresult # "panic"
    /\ txq # <<>>
    /\ txq' = [j \in 1..(Len(txq) - 1) |->
                  IF j < NextOnBus(txq) THEN txq[j] ELSE txq[j + 1]]
    /\ bop' = "bus"
    /\ UNCHANGED <<config_id, bmsg, blog, bresult, tids, fgVars, rxVars, cVars>>

\* the frame generator, untouched
FGIdle ==
    /\ body = [bits |-> 0, bytes |-> <<>>]
    /\ fg = from_uavcan_frame(0, [bits |-> 0, bytes |-> <<>>], 0)
    /\ emitted = <<>>
    /\ ret = "none yet"
    /\ noneCalls = 0

TxInit ==
    /\ FGIdle
    /\ RxIdle
    /\ CodecIdle
    /\ config_id \in ConfigIds
    /\ txq = <<>>
    /\ bop = "none yet"
    /\ bmsg = [type_id |-> 0, bytes |-> <<>>]
    /\ blog = <<>>
    /\ bresult = "none yet"
    /\ tids = [t \in TypeIds |-> <<>>]

TxNext ==
    \/ \E message \in Messages : Broadcast(message)
    \/ BusTransmit

SpecBroadcast == TxInit /\ [][TxNext]_vars

-----------------------------------------------------------------------------
(* Properties of broadcast *)

\* the frames of a log of transmit calls that were accepted
RECURSIVE Accepted(_)
Accepted(log) ==
    IF log = <<>> THEN <<>>
    ELSE IF log[1].ok THEN <<log[1].frame>> \o Accepted(Tail(log))
    ELSE Accepted(Tail(log))

\* C7: broadcast hands the framer's frames to transmit in sequence order; when
\* the k-th transmit fails broadcast returns the error at once, the k-1 frames
\* accepted before stay queued and no later frame is submitted; when every
\* transmit succeeds it returns Ok with all frames submitted.
C7_BroadcastSubmits ==
    [][(bop' = "broadcast" /\ config_id # <<>>) =>
          \A frames \in {BroadcastFrames(bmsg', config_id[1], 0)}, n \in {Len(blog')} :
             /\ n <= Len(frames)
             /\ \A i \in 1..n : blog'[i].frame = frames[i]
             /\ \A i \in 1..(n - 1) : blog'[i].ok
             /\ txq' = txq \o Accepted(blog')
             /\ bresult' \in {"Ok", "Err"}
             /\ bresult' = "Ok" <=> (n = Len(frames) /\ \A i \in 1..n : blog'[i].ok)
             /\ bresult' = "Err" <=> (n >= 1 /\ ~blog'[n].ok)]_vars

\* C7 witness: a broadcast of three frames failed on its third transmit, the
\* first two frames staying queued
C7_Witness ==
    /\ bop = "broadcast" /\ bresult = "Err"
    /\ Len(blog) = 3 /\ blog[1].ok /\ blog[2].ok /\ ~blog[3].ok
    /\ Len(txq) >= 2

\* C8: of two consecutive broadcasts of one message type the second uses the
\* transfer id of the first plus one, modulo 32.
C8_TransferIdIncrements ==
    \A t \in DOMAIN tids :
        Len(tids[t]) = 2 => tids[t][2] = (tids[t][1] + 1) % 32

\* C9: broadcast on a node without a node id returns an error value to the
\* caller and transmits nothing; it does not panic.
C9_AnonymousIsAnError ==
    (bop = "broadcast" /\ config_id = <<>>) =>
        bresult = "Err" /\ blog = <<>> /\ txq = <<>>

-----------------------------------------------------------------------------
(* Deframing of the node crate: Version0Deframer *)

\* Version0Deframer::new: idle, awaiting a start frame
Version0Deframer_new == [state |-> "Idle", next_toggle |-> FALSE, bytes |-> <<>>]

\* the result of add_frame: Ok(Ok), Ok(Finished(body)), Err(ToggleError), Err(CRCError)
DeframingOutcome(res, d, bytes) == [res |-> res, deframer |-> d, body |-> bytes]

\* Completing: the first two bytes of a multi-frame transfer are its CRC, low byte first
Completing(d, all) ==
    IF Len(all) >= 2 /\ all[1] + 256 * all[2] = TransportCRC(SubSeq(all, 3, Len(all)))
    THEN DeframingOutcome("Finished", Version0Deframer_new, SubSeq(all, 3, Len(all)))
    ELSE DeframingOutcome("CRCError", d, <<>>)

\* Version0Deframer::add_frame
add_frame(d, f) ==
    LET tb      == tail_byte(f)
        payload == SubSeq(f.data, 1, Len(f.data) - 1)
    IN IF start_of_transfer(tb)
       THEN \* a start frame (re)starts the transfer; its toggle is 0
            IF toggle(tb)
            THEN DeframingOutcome("ToggleError", d, <<>>)
            ELSE IF end_of_transfer(tb)
            THEN DeframingOutcome("Finished", Version0Deframer_new, payload)
            ELSE DeframingOutcome("Ok",
                     [state |-> "InProgress", next_toggle |-> TRUE, bytes |-> payload], <<>>)
       ELSE IF d.state = "Idle"
       THEN \* a frame of a transfer whose start was never seen is ignored
            DeframingOutcome("Ok", d, <<>>)
       ELSE IF toggle(tb) # d.next_toggle
       THEN DeframingOutcome("ToggleError", d, <<>>)
       ELSE IF end_of_transfer(tb)
       THEN Completing(d, d.bytes \o payload)
       ELSE DeframingOutcome("Ok",
                [d EXCEPT !.next_toggle = ~d.next_toggle, !.bytes = d.bytes \o payload], <<>>)

-----------------------------------------------------------------------------
(* The subscriber of the transfer interface: TransferSubscriber *)

\* the sequence without its j-th element
RemoveAt(buf, j) == [k \in 1..(Len(buf) - 1) |-> IF k < j THEN buf[k] ELSE buf[k + 1]]

SetMin(S) == CHOOSE x \in S : \A y \in S : x <= y

\* TransferSubscriber::find(|x| x.is_end_frame()): the position of the oldest
\* buffered end frame, 0 when there is none
find_end_frame(buf) ==
    IF \E j \in 1..Len(buf) : is_end_frame(buf[j])
    THEN SetMin({j \in 1..Len(buf) : is_end_frame(buf[j])})
    ELSE 0

\* TransferSubscriber::receive(&id): the position of the oldest buffered frame
\* with this frame id, which the call removes; 0 when there is none
receive_position(buf, id) ==
    IF \E j \in 1..Len(buf) : buf[j].id = id
    THEN SetMin({j \in 1..Len(buf) : buf[j].id = id})
    ELSE 0

\* TransferSubscriber::retain(|x| x.full_id() != fid): keeps the frames of
\* every other transfer, in order
retain_other(buf, fid) == SelectSeq(buf, LAMBDA x : full_id(x) # fid)

-----------------------------------------------------------------------------
(* The node facade, src/uavcan/src/node.rs: subscribe and Subscriber::receive *)

\* TransferFrameIDFilter::new
TransferFrameIDFilter_new(value, mask) == [value |-> value, mask |-> mask]

\* TransferFrameIDFilter::is_match
is_match(filter, value) == And[filter.mask, value] = And[filter.mask, filter.value]

\* SimpleNode::subscribe: the filter registered for a type id, mask 0x1ff << 7
subscribe_filter(type_id) == TransferFrameIDFilter_new(type_id * Pow2(8), 511 * Pow2(7))

\* the error of the ToggleError arm carrying the error code of the CRCError arm
ReceiveError_crc_code(end_frame, code) ==
    [kind |-> "Err", body |-> <<>>, transfer_frame_id |-> end_frame.id,
     transfer_id |-> transfer_id(tail_byte(end_frame)), error_code |-> "CRCError"]

\* what receive returns with an error: Some(Err(ReceiveError{..}))
ReceiveError(end_frame, code) ==
    [kind |-> "Err", body |-> <<>>, transfer_frame_id |-> end_frame.id,
     transfer_id |-> transfer_id(tail_byte(end_frame)), error_code |-> code]

\* what receive returns with a message: Some(Ok(frame.into_parts().1))
ReceiveOk(bytes) ==
    [kind |-> "Ok", body |-> bytes, transfer_frame_id |-> 0, transfer_id |-> 0,
     error_code |-> "none"]

\* the call taking the oldest buffered frame whatever its frame id
next_frame_position_any_id(buf, end_frame) == IF buf = <<>> THEN 0 ELSE 1

\* self.transfer_subscriber.receive(&end_frame.id()): the frame asked for is
\* the oldest one with the frame id of the end frame
next_frame_position(buf, end_frame) == receive_position(buf, end_frame.id)

RECURSIVE ReceiveLoop(_, _, _)
\* loop { match deframer.add_frame(self.transfer_subscriber.receive(&end_frame.id()).unwrap()) ... }
ReceiveLoop(buf, d, end_frame) ==
    LET j == next_frame_position(buf, end_frame)
    IN IF j = 0
       THEN \* receive(..) is None: unwrap() panics
            [ret |-> NoReceive("panic"), buf |-> buf]
       ELSE LET rest == RemoveAt(buf, j)
                r    == add_frame(d, buf[j])
            IN CASE r.res = "ToggleError" ->
                        [ret |-> ReceiveError(end_frame, "ToggleError"),
                         buf |-> retain_other(rest, full_id(end_frame))]
                 [] r.res = "CRCError" ->
                        [ret |-> ReceiveError(end_frame, "CRCError"),
                         buf |-> retain_other(rest, full_id(end_frame))]
                 [] r.res = "Finished" ->
                        [ret |-> ReceiveOk(r.body), buf |-> rest]
                 [] r.res = "Ok" ->
                        ReceiveLoop(rest, r.deframer, end_frame)

\* Subscriber::receive: [ret, buf]
Subscriber_receive(buf) ==
    IF find_end_frame(buf) = 0
    THEN [ret |-> NoReceive("None"), buf |-> buf]
    ELSE ReceiveLoop(buf, Version0Deframer_new, buf[find_end_frame(buf)])

\* the message type subscribed to
SubscribedType == 341

\* the transfers on the bus: a NodeStatus of node 32 in one frame, 16 bytes of
\* node 33 in three frames, 8 bytes of node 33 in two frames under the next
\* transfer id, 8 bytes of node 34 in two frames, and a single frame message
\* of another type
RxTransfers ==
    {[id |-> Frame_from_message_id(0, 341, 32), tid |-> 0, bytes |-> <<1, 0, 0, 0, 142, 5, 0>>],
     [id |-> Frame_from_message_id(0, 341, 33), tid |-> 3, bytes |-> [k \in 1..16 |-> k - 1]],
     [id |-> Frame_from_message_id(0, 341, 33), tid |-> 4, bytes |-> [k \in 1..8 |-> 16 + k]],
     [id |-> Frame_from_message_id(0, 341, 34), tid |-> 0, bytes |-> [k \in 1..8 |-> 32 + k]],
     [id |-> Frame_from_message_id(0, 342, 32), tid |-> 0, bytes |-> <<9>>]}

\* the frames of each transfer, as the sender's framer makes them
RxFrames == [x \in RxTransfers |-> Version0Framer_frames(x.id, x.bytes, x.tid)]

FramesOf(x) == RxFrames[x]

\* the frames of one transfer arrive in order, some may be lost, and a sender
\* puts all the frames of a transfer on the bus before those of its next one
InOrder(seen, x, k) ==
    /\ k > seen[x]
    /\ \A y \in RxTransfers : (y.id = x.id /\ y.tid > x.tid) => seen[y] = 0

\* the interface receives a frame and buffers it for the subscriber when the
\* subscriber's filter matches
FrameArrives(x, k) ==
    /\ rret.kind # "panic"
    /\ k <= Len(FramesOf(x))
    /\ Len(rxbuf) < RxCapacity
    /\ InOrder(onbus, x, k)
    /\ onbus' = [onbus EXCEPT ![x] = k]
    /\ rxprev' = <<>>
    /\ rxbuf' = IF is_match(subscribe_filter(SubscribedType), FramesOf(x)[k].id)
                THEN Append(rxbuf, FramesOf(x)[k])
                ELSE rxbuf
    /\ rop' = "arrive"
    /\ UNCHANGED <<rret, fgVars, txVars, cVars>>

\* one call of Subscriber::receive
Receive ==
    /\ rret.kind # "panic"
    /\ LET r == Subscriber_receive(rxbuf)
       IN /\ rxbuf' = r.buf
          /\ rret' = r.ret
    /\ rop' = "receive"
    /\ rxprev' = rxbuf
    /\ UNCHANGED <<onbus, fgVars, txVars, cVars>>

RxInit ==
    /\ FGIdle
    /\ TxIdle
    /\ CodecIdle
    /\ rxbuf = <<>>
    /\ rop = "none yet"
    /\ onbus = [x \in RxTransfers |-> 0]
    /\ rxprev = <<>>
    /\ rret = NoReceive("none yet")

RxNext ==
    \/ \E x \in RxTransfers, k \in 1..3 : FrameArrives(x, k)
    \/ Receive

SpecReceive == RxInit /\ [][RxNext]_vars

-----------------------------------------------------------------------------
(* Properties of Subscriber::receive *)

\* every frame of transfer x is buffered
Complete(buf, x) ==
    \A k \in 1..Len(FramesOf(x)) : \E j \in 1..Len(buf) : buf[j] = FramesOf(x)[k]

\* C10: when no transfer has all its frames buffered, receive returns None and
\* leaves the buffered frames as they are.
C10_NothingCompleteNoEffect ==
    [][(rop' = "receive" /\ ~\E x \in RxTransfers : Complete(rxbuf, x)) =>
          (rret'.kind = "None" /\ rxbuf' = rxbuf)]_vars

\* the position in the buffer of the end frame of transfer x, 0 when it is not buffered
EndPos(buf, x) ==
    IF \E j \in 1..Len(buf) : buf[j] = FramesOf(x)[Len(FramesOf(x))]
    THEN SetMin({j \in 1..Len(buf) : buf[j] = FramesOf(x)[Len(FramesOf(x))]})
    ELSE 0

\* the transfers that have all their frames buffered
CompleteIn(buf) == {x \in RxTransfers : Complete(buf, x)}

\* C11: a message receive returns is the body of the complete transfer whose
\* end frame arrived first among the complete transfers buffered, whatever the
\* order of the first frames and whatever the frame ids.
C11_EndFrameOrder ==
    [][(rop' = "receive" /\ rret'.kind = "Ok") =>
          \E x \in CompleteIn(rxbuf) :
             /\ rret'.body = x.bytes
             /\ \A y \in CompleteIn(rxbuf) : EndPos(rxbuf, x) <= EndPos(rxbuf, y)]_vars

\* C12: a message receive returns is the body of the complete transfer of the
\* numerically lowest frame id among the complete transfers buffered, the one
\* whose end frame is oldest among equal ids.
C12_PriorityOrder ==
    [][(rop' = "receive" /\ rret'.kind = "Ok") =>
          \E x \in CompleteIn(rxbuf) :
             /\ rret'.body = x.bytes
             /\ \A y \in CompleteIn(rxbuf) :
                    \/ x.id < y.id
                    \/ (x.id = y.id /\ EndPos(rxbuf, x) <= EndPos(rxbuf, y))]_vars

\* the frames of the buffer that are not frames of transfer x, in order
WithoutFramesOf(buf, x) ==
    SelectSeq(buf, LAMBDA f : \A k \in 1..Len(FramesOf(x)) : f # FramesOf(x)[k])

\* the buffer holds the frames of two complete multi-frame transfers of
\* different frame ids, each transfer's frames in order, and nothing else
TwoInterleaved(buf, x, y) ==
    /\ x.id # y.id
    /\ Len(FramesOf(x)) > 1 /\ Len(FramesOf(y)) > 1
    /\ Complete(buf, x) /\ Complete(buf, y)
    /\ Len(buf) = Len(FramesOf(x)) + Len(FramesOf(y))

\* C13: from a buffer holding two multi-frame transfers of different frame
\* ids, interleaved in any way, receive returns the body of one of them and
\* leaves the frames of the other in place and in order; the next receive
\* returns the body of the other and leaves the buffer empty.
C13_InterleavedTransfers ==
    [][rop' = "receive" =>
          /\ \A x, y \in RxTransfers :
                TwoInterleaved(rxbuf, x, y) =>
                   \E z \in {x, y} :
                      /\ rret' = ReceiveOk(z.bytes)
                      /\ rxbuf' = WithoutFramesOf(rxbuf, z)
          /\ \A x \in RxTransfers :
                (Len(FramesOf(x)) > 1 /\ Complete(rxbuf, x) /\ Len(rxbuf) = Len(FramesOf(x))) =>
                   (rret' = ReceiveOk(x.bytes) /\ rxbuf' = <<>>)]_vars

\* C13 witness: the frames of a two-frame transfer were buffered between those
\* of a three-frame transfer of another frame id; receive has returned the 8
\* bytes of the two-frame transfer and the three-frame transfer stays whole
C13_Witness ==
    /\ rop = "receive" /\ rret.kind = "Ok" /\ Len(rret.body) = 8
    /\ \E x, y \in RxTransfers :
          /\ TwoInterleaved(rxprev, x, y)
          /\ Len(FramesOf(x)) = 3 /\ Len(FramesOf(y)) = 2
          /\ rxprev[1].id = x.id /\ rxprev[2].id = y.id /\ rxprev[3].id = x.id
          /\ rxprev[4].id = y.id /\ rxprev[5].id = x.id
          /\ rret.body = y.bytes
          /\ rxbuf = FramesOf(x)

\* C14: when receive returns an error, the error names the frame id and the
\* transfer id of the oldest buffered end frame and is a ToggleError or a
\* CRCError; afterwards no frame of that full transfer id is buffered and the
\* frames of every other full transfer id are all still buffered, in order.
C14_ErrorDropsOnlyThatTransfer ==
    [][(rop' = "receive" /\ rret'.kind = "Err") =>
          \A e \in {rxbuf[find_end_frame(rxbuf)]} :
             /\ rret'.transfer_frame_id = e.id
             /\ rret'.transfer_id = transfer_id(tail_byte(e))
             /\ rret'.error_code \in {"ToggleError", "CRCError"}
             /\ \A j \in 1..Len(rxbuf') : full_id(rxbuf'[j]) # full_id(e)
             /\ rxbuf' = SelectSeq(rxbuf, LAMBDA f : full_id(f) # full_id(e))]_vars

\* the frames of the buffer with the frame id of transfer x, in order
FramesWithIdOf(buf, x) == SelectSeq(buf, LAMBDA f : f.id = x.id)

\* C15: when the frames buffered under the frame id of a three-frame transfer
\* are its first and its last frame, the middle one missing, receive reports a
\* ToggleError for that transfer and delivers no body.
C15_MissingMiddleFrame ==
    \A x \in RxTransfers :
        (/\ rop = "receive"
         /\ Len(FramesOf(x)) = 3
         /\ FramesWithIdOf(rxprev, x) = <<FramesOf(x)[1], FramesOf(x)[3]>>
         /\ rxprev[find_end_frame(rxprev)] = FramesOf(x)[3])
        => /\ rret.kind = "Err"
           /\ rret.error_code = "ToggleError"
           /\ rret.transfer_frame_id = x.id /\ rret.transfer_id = x.tid
           /\ rret.body = <<>>
           /\ FramesWithIdOf(rxbuf, x) = <<>>

\* C15 witness: receive has run on the first and the last frame of the
\* three-frame transfer of node 33 and returned an error
C15_Witness ==
    /\ rop = "receive" /\ rret.kind = "Err"
    /\ \E x \in RxTransfers :
          /\ Len(FramesOf(x)) = 3
          /\ rxprev = <<FramesOf(x)[1], FramesOf(x)[3]>>

\* frame f is buffered in buf
Buffered(buf, f) == \E j \in 1..Len(buf) : buf[j] = f

\* C16: whatever frames are buffered, orphans included, receive returns: it
\* does not panic, and an error it returns is for a transfer whose start frame
\* was buffered, never for an orphan.
C16_OrphansDroppedSilently ==
    rop = "receive" =>
        /\ rret.kind # "panic"
        /\ rret.kind = "Err" =>
              \A x \in RxTransfers :
                 (x.id = rret.transfer_frame_id /\ x.tid = rret.transfer_id)
                    => Buffered(rxprev, FramesOf(x)[1])

-----------------------------------------------------------------------------
(* The encoding and decoding functions: tail bytes and frame ids *)

\* the transfer ids a tail byte carries: 5 bits
TailTransferIds == 0..31

\* every byte
Bytes == 0..255

\* the priorities, data type ids, source nodes and discriminators of headers
Priorities == 0..7

MessageTypeIds == {0, 1, 341, 1000, 32768, 65535}

SourceNodes == {1, 32, 64, 127}

Discriminators == {0, 1, 5461, 16383}

AnonymousTypeIds == {0, 1, 2, 3, 4, 255}

\* field values beyond the widths of the id fields: priorities of more than 5
\* bits, node ids of 8 bits, u16 type ids and discriminators, u8 service type ids
AnyPriorities == {0, 7, 31, 127}

AnyNodes == {0, 1, 127, 128, 255}

AnyTypeIds == {0, 341, 65535}

AnyDiscriminators == {0, 16383, 65535}

ServiceTypeIds == {0, 1, 200, 255}

\* u32::cmp on frame ids
Ordering_cmp(a, b) == IF a < b THEN "Less" ELSE IF a = b THEN "Equal" ELSE "Greater"

\* Ordering::reverse
Ordering_reverse(o) ==
    IF o = "Less" THEN "Greater" ELSE IF o = "Greater" THEN "Less" ELSE "Equal"

\* Ord for Priority<TransferFrameID> without the reverse()
Priority_cmp_not_reversed(a, b) == Ordering_cmp(a, b)

\* Ord for Priority<TransferFrameID>: self.0.cmp(&other.0).reverse()
Priority_cmp(a, b) == Ordering_reverse(Ordering_cmp(a, b))

\* PartialEq for Priority<TransferFrameID>: self.0.eq(&other.0)
Priority_eq(a, b) == a = b

\* Ord for Priority<F: TransferFrame>: self.0.id().cmp(&other.0.id()).reverse()
PriorityFrame_cmp(f, g) == Ordering_reverse(Ordering_cmp(f.id, g.id))

\* PartialEq for Priority<F: TransferFrame>: self.0.id().eq(&other.0.id())
PriorityFrame_eq(f, g) == f.id = g.id

\* the frame ids and frame data priorities are compared on
PriorityIds == {0, 1, 87328, 87329, 536870911}

PriorityData == {<<>>, <<1, 192>>}

\* the message types subscribed to and the type ids of the frames offered to
\* the filter: 85 and 597 share their low 8 bits with 341
SubscribedTypeIds == {341, 1000}

OfferedTypeIds == {0, 85, 341, 597, 1000, 65535}

-----------------------------------------------------------------------------
(* Primitive types, src/src/types.rs.  A u64 (and the bit pattern of an i64)
   is the sequence of its 64 bits, bit n at index n + 1 *)

U64Bits == 64

U64Zero == [n \in 1..U64Bits |-> 0]

\* 0xffffffffffffffff
U64Ones == [n \in 1..U64Bits |-> 1]

\* the bit pattern of an integer the model can hold (two's complement)
U64FromInt(v) ==
    [n \in 1..U64Bits |->
        IF n > 31 THEN (IF v < 0 THEN 1 ELSE 0)
        ELSE IF v < 0 THEN 1 - (((-(v + 1)) \div Pow2(n - 1)) % 2)
        ELSE (v \div Pow2(n - 1)) % 2]

\* (buffer[i] as u64) << i*8
U64FromByteShifted(byte, i) ==
    [n \in 1..U64Bits |->
        IF n > 8 * i /\ n <= 8 * i + 8 THEN (byte \div Pow2(n - 1 - 8 * i)) % 2 ELSE 0]

\* a | b
U64Or(a, b) == [n \in 1..U64Bits |-> IF a[n] = 1 \/ b[n] = 1 THEN 1 ELSE 0]

\* BitIndex::bit(pos)
bit(t, pos) == t[pos + 1] = 1

\* BitIndex::bit_range(lo..hi): the value of the bits lo..hi-1, right aligned
bit_range(t, lo, hi) == [n \in 1..U64Bits |-> IF n <= hi - lo THEN t[lo + n] ELSE 0]

\* the outcomes of bit_range(lo..hi): an empty range makes the shift amount
\* the width of the type, which panics, or leaves the value or zero
bit_range_outcomes(t, lo, hi) ==
    IF lo < hi
    THEN {[panicked |-> FALSE, value |-> bit_range(t, lo, hi)]}
    ELSE {[panicked |-> TRUE, value |-> t],
          [panicked |-> FALSE, value |-> t],
          [panicked |-> FALSE, value |-> U64Zero]}

\* for i in 0..((self.x + 7) / 8) { temp |= (buffer[i] as u64) << i*8; }
read_little_endian(x, buffer) ==
    LET temp[i \in 0..CeilDiv(x, 8)] ==
            IF i = 0 THEN U64Zero
            ELSE U64Or(temp[i - 1], U64FromByteShifted(buffer[i], i - 1))
    IN temp[CeilDiv(x, 8)]

\* Bool::set_from_bytes: `self.value == true;` compares and assigns nothing
Bool_set_from_bytes(self, buffer) ==
    IF And[buffer[1], 1] = 0 THEN [self EXCEPT !.value = <<0>>] ELSE self

\* IntX::set_from_bytes: the outcomes [panicked, self]
IntX_set_from_bytes(self, buffer) ==
    LET temp_bm == read_little_endian(self.x, buffer)
    IN IF bit(temp_bm, self.x - 1)
       THEN {[panicked |-> r.panicked,
              self |-> IF r.panicked THEN self
                       ELSE [self EXCEPT !.value = U64Or(temp_bm, r.value)]] :
                r \in bit_range_outcomes(U64Ones, self.x, U64Bits)}
       ELSE {[panicked |-> r.panicked,
              self |-> IF r.panicked THEN self ELSE [self EXCEPT !.value = r.value]] :
                r \in bit_range_outcomes(temp_bm, 0, self.x)}

\* UintX::set_from_bytes without temp_value.bit_range(0..self.x)
UintX_set_from_bytes_untruncated(self, buffer) ==
    {[panicked |-> FALSE,
      self |-> [self EXCEPT !.value = read_little_endian(self.x, buffer)]]}

\* UintX::set_from_bytes: the outcomes [panicked, self]
UintX_set_from_bytes(self, buffer) ==
    LET temp_value == read_little_endian(self.x, buffer)
    IN {[panicked |-> r.panicked,
         self |-> IF r.panicked THEN self ELSE [self EXCEPT !.value = r.value]] :
           r \in bit_range_outcomes(temp_value, 0, self.x)}

\* UavcanPrimitiveType::set_from_bytes of a field [type, x, value]
set_from_bytes(self, buffer) ==
    IF self.type = "Bool"
    THEN {[panicked |-> FALSE, self |-> Bool_set_from_bytes(self, buffer)]}
    ELSE IF self.type = "IntX" THEN IntX_set_from_bytes(self, buffer)
    ELSE UintX_set_from_bytes(self, buffer)

\* Float16::set_from_bytes: the bit pattern (buffer[0]) | (buffer[1] << 8)
Float16_set_from_bytes(buffer) ==
    U64Or(U64FromByteShifted(buffer[1], 0), U64FromByteShifted(buffer[2], 1))

\* Float32::set_from_bytes: the bit pattern
\* buffer[0] | buffer[0] << 8 | buffer[1] << 16 | buffer[2] << 24
Float32_set_from_bytes(buffer) ==
    U64Or(U64Or(U64FromByteShifted(buffer[1], 0), U64FromByteShifted(buffer[1], 1)),
          U64Or(U64FromByteShifted(buffer[2], 2), U64FromByteShifted(buffer[3], 3)))

\* Float64::set_from_bytes: the bit pattern buffer[0] | buffer[0] << 8 |
\* buffer[1] << 16 | ... | buffer[6] << 56
Float64_set_from_bytes(buffer) ==
    LET bm[i \in 0..7] ==
            IF i = 0 THEN U64FromByteShifted(buffer[1], 0)
            ELSE U64Or(bm[i - 1], U64FromByteShifted(buffer[i], i))
    IN bm[7]

\* bitlength() of the float types
FloatBitlength(type) == IF type = "Float16" THEN 16 ELSE IF type = "Float32" THEN 32 ELSE 64

-----------------------------------------------------------------------------
(* Structures: a structure is the sequence of its primitive fields in
   declaration order, a field is [type, x, value] *)

\* UintX::new(x, value)
UintX_new(x, value) == [type |-> "UintX", x |-> x, value |-> U64FromInt(value)]

\* IntX::new(x, value)
IntX_new(x, value) == [type |-> "IntX", x |-> x, value |-> U64FromInt(value)]

\* Bool::new(value): the value is held as its one bit
Bool_new(value) == [type |-> "Bool", x |-> 1, value |-> <<IF value THEN 1 ELSE 0>>]

\* the NodeStatus of the tests
NodeStatus(uptime_sec, health, mode, sub_mode, vendor_specific_status_code) ==
    <<UintX_new(32, uptime_sec), UintX_new(2, health), UintX_new(3, mode),
      UintX_new(3, sub_mode), UintX_new(16, vendor_specific_status_code)>>

\* the byte aligned Message of the tests
Message(v1, v2, v3, v4) ==
    <<UintX_new(8, v1), UintX_new(32, v2), UintX_new(16, v3), UintX_new(8, v4)>>

\* a structure of a Bool, two IntX and a UintX that are not byte aligned
Mixed(flag, small, count, wide) ==
    <<Bool_new(flag), IntX_new(7, small), UintX_new(3, count), IntX_new(13, wide)>>

\* the structure as its new() builds it: every value zero
Blank(S) ==
    [i \in 1..Len(S) |->
        [S[i] EXCEPT !.value = IF S[i].type = "Bool" THEN <<0>> ELSE U64Zero]]

\* the bits a field puts on the wire, least significant first
FieldBits(f) == SubSeq(f.value, 1, f.x)

\* the fields' bits in declaration order, without alignment
StructBits(S) ==
    LET b[i \in 0..Len(S)] == IF i = 0 THEN <<>> ELSE b[i - 1] \o FieldBits(S[i])
    IN b[Len(S)]

BitAt(bits, n) == IF n <= Len(bits) THEN bits[n] ELSE 0

\* bit n of the stream is bit n % 8 of byte n / 8
PackBytes(bits) ==
    [k \in 1..CeilDiv(Len(bits), 8) |->
        BitAt(bits, 8 * k - 7) + 2 * BitAt(bits, 8 * k - 6) + 4 * BitAt(bits, 8 * k - 5)
        + 8 * BitAt(bits, 8 * k - 4) + 16 * BitAt(bits, 8 * k - 3)
        + 32 * BitAt(bits, 8 * k - 2) + 64 * BitAt(bits, 8 * k - 1)
        + 128 * BitAt(bits, 8 * k)]

UnpackBits(bytes) ==
    [n \in 1..(8 * Len(bytes)) |-> (bytes[(n - 1) \div 8 + 1] \div Pow2((n - 1) % 8)) % 2]

\* the body the serializer of a structure walks over
SerializedStructure(S) == [bits |-> Len(StructBits(S)), bytes |-> PackBytes(StructBits(S))]

\* while let Some(frame) = generator.next_transport_frame() { ... }
RECURSIVE frames_of(_)
frames_of(g) ==
    LET r == next_transport_frame(g)
    IN IF r.some THEN <<r.frame>> \o frames_of(r.gen) ELSE <<>>

\* the payload bytes of frame k: what precedes the last data byte, less the
\* two leading bytes of the first frame of a multi-frame transfer
FramePayload(frames, k) ==
    LET d == frames[k].data
    IN IF Len(frames) > 1 /\ k = 1 THEN SubSeq(d, 3, Len(d) - 1) ELSE SubSeq(d, 1, Len(d) - 1)

\* the payloads in emission order
Payload(frames) ==
    LET p[k \in 0..Len(frames)] == IF k = 0 THEN <<>> ELSE p[k - 1] \o FramePayload(frames, k)
    IN p[Len(frames)]

\* the bit offset of field i
FieldOffset(S, i) ==
    LET o[k \in 1..Len(S)] == IF k = 1 THEN 0 ELSE o[k - 1] + S[k - 1].x
    IN o[i]

\* Parser::from_structure(S).parse(bytes).to_structure(): every field is set
\* from the bytes holding its bits; the outcomes [panicked, fields]
Parser_parse(S, bytes) ==
    LET bits == UnpackBits(bytes)
        p[i \in 0..Len(S)] ==
            IF i = 0 THEN {[panicked |-> FALSE, fields |-> <<>>]}
            ELSE UNION {{[panicked |-> q.panicked \/ o.panicked,
                          fields |-> Append(q.fields, o.self)] :
                            o \in set_from_bytes(S[i],
                                     PackBytes(SubSeq(bits, FieldOffset(S, i) + 1,
                                                      FieldOffset(S, i) + S[i].x)))} :
                        q \in p[i - 1]}
    IN p[Len(S)]

\* the structures that are framed and parsed back
Structs ==
    {NodeStatus(u, h, md, sm, v) :
        u \in {1, 305419896}, h \in 0..3, md \in {0, 3, 7}, sm \in {0, 4, 7},
        v \in {5, 65535}}
    \cup {Mixed(f, a, n, w) :
             f \in BOOLEAN, a \in {-64, -1, 0, 63}, n \in {0, 5}, w \in {-4096, -1, 1, 4095}}
    \cup {Message(a, b, 21, d) : a \in {17, 255}, b \in {19, 2147483647}, d \in {17, 255}}

-----------------------------------------------------------------------------
(* Node ids, src/uavcan/src/node.rs *)

\* NodeID::new with the assert_ne!(id, 0) left out
NodeID_new_panics_above_127(id) == id > 127

\* assert_ne!(id, 0); assert!(id <= 127)
NodeID_new_panics(id) == id = 0 \/ ~(id <= 127)

\* NodeID::new(id): NodeID(id)
NodeID_new(id) == id

\* impl From<NodeID> for u8
u8_from_NodeID(id) == id

\* impl From<NodeID> for u32: u32::from(id.0)
u32_from_NodeID(id) == id

-----------------------------------------------------------------------------
(* The widths and buffers set_from_bytes is called with *)

IntWidths == {2, 3, 7, 8, 9, 16, 31, 32, 33, 63, 64}

UintWidths == {1} \cup IntWidths

\* how many bytes a buffer has: one more than the widest type reads
BufferLen == 9

\* the buffers: a first byte and the byte every later position holds
Buffers ==
    {[j \in 1..BufferLen |-> IF j = 1 THEN a ELSE b] :
        a \in {0, 1, 2, 127, 128, 255}, b \in {0, 1, 128, 255}}

\* the indices of the fields of a NodeStatus
FieldNumbers == 0..4

\* the derived primitive_field_as_mut(field_number) of a structure: the
\* position of the field in the sequence, 0 for None
primitive_field_as_mut(S, field_number) ==
    IF field_number < Len(S) THEN field_number + 1 ELSE 0

\* primitive_type_as_mut(index) of a primitive type: Some(self) for index 0
primitive_type_as_mut(f, index) == IF index = 0 THEN <<f>> ELSE <<>>

\* the arguments the functions are called with
CodecInputs ==
    [kind : {"TailByte::new", "core TailByte"},
     sot : BOOLEAN, eot : BOOLEAN, toggle : BOOLEAN, tid : TailTransferIds]
    \cup [kind : {"TailByte::from"}, byte : Bytes]
    \cup [kind : {"MessageFrameHeader"},
          priority : Priorities, type_id : MessageTypeIds, source_node : SourceNodes]
    \cup [kind : {"AnonymousFrameHeader"},
          priority : Priorities, discriminator : Discriminators, type_id : AnonymousTypeIds]
    \cup [kind : {"any MessageFrameHeader"},
          priority : AnyPriorities, type_id : AnyTypeIds, source_node : AnyNodes]
    \cup [kind : {"any AnonymousFrameHeader"},
          priority : AnyPriorities, discriminator : AnyDiscriminators,
          type_id : AnonymousTypeIds]
    \cup [kind : {"subscribe"},
          subscribed : SubscribedTypeIds, service : BOOLEAN,
          priority : Priorities, type_id : OfferedTypeIds, source_node : SourceNodes]
    \cup [kind : {"Priority"},
          a : PriorityIds, b : PriorityIds, data_a : PriorityData, data_b : PriorityData]
    \cup [kind : {"ServiceFrameHeader"},
          priority : AnyPriorities, type_id : ServiceTypeIds,
          request_not_response : BOOLEAN,
          destination_node : AnyNodes, source_node : AnyNodes]
    \cup [kind : {"structure"}, fields : Structs, tid : TransferIds]
    \cup [kind : {"NodeID::new"}, id : Bytes]
    \cup [kind : {"IntX::set_from_bytes"}, x : IntWidths, buffer : Buffers]
    \cup [kind : {"Float::set_from_bytes"},
          type : {"Float16", "Float32", "Float64"}, buffer : Buffers]
    \cup [kind : {"Bool::set_from_bytes"}, before : BOOLEAN, buffer : Buffers]
    \cup [kind : {"UintX::set_from_bytes"},
          x : UintWidths, buffer : Buffers, field_number : FieldNumbers]

CodecInit ==
    /\ FGIdle
    /\ TxIdle
    /\ RxIdle
    /\ cin \in CodecInputs
    /\ cout = [kind |-> "none"]

\* TailByte::new(sot, eot, toggle, TransferID::new(tid)) of the transfer layer,
\* converted to u8 and read back with the accessors
TailByteNew ==
    /\ cin.kind = "TailByte::new" /\ cout.kind = "none"
    /\ LET tb == TailByte_new(cin.sot, cin.eot, cin.toggle, TransferID_new(cin.tid))
       IN cout' = [kind |-> cin.kind,
                   panicked |-> TransferID_new_panics(cin.tid),
                   byte |-> u8_from_TailByte(tb),
                   start_of_transfer |-> start_of_transfer(tb),
                   end_of_transfer |-> end_of_transfer(tb),
                   toggle |-> toggle(tb),
                   transfer_id |-> transfer_id(tb)]
    /\ UNCHANGED <<cin, fgVars, txVars, rxVars>>

\* TailByte::from(byte) of the transfer layer, its transfer_id() and its u8
TailByteFrom ==
    /\ cin.kind = "TailByte::from" /\ cout.kind = "none"
    /\ LET tb == TailByte_from_u8(cin.byte)
       IN cout' = [kind |-> cin.kind,
                   panicked |-> TransferID_new_panics(And[tb, 31]),
                   byte |-> u8_from_TailByte(tb),
                   transfer_id |-> transfer_id(tb)]
    /\ UNCHANGED <<cin, fgVars, txVars, rxVars>>

\* a TailByte of the core crate converted into u8 and back
CoreTailByteRoundTrip ==
    /\ cin.kind = "core TailByte" /\ cout.kind = "none"
    /\ LET u == TailByteIntoU8(TailByte(cin.sot, cin.eot, cin.toggle, cin.tid))
       IN cout' = [kind |-> cin.kind, byte |-> u, tail |-> TailByteFromU8(u)]
    /\ UNCHANGED <<cin, fgVars, txVars, rxVars>>

\* MessageFrameHeader::to_id
MessageToId ==
    /\ cin.kind \in {"MessageFrameHeader", "any MessageFrameHeader"} /\ cout.kind = "none"
    /\ cout' = [kind |-> cin.kind,
                id |-> MessageFrameHeader_to_id(cin.priority, cin.type_id, cin.source_node)]
    /\ UNCHANGED <<cin, fgVars, txVars, rxVars>>

\* AnonymousFrameHeader::to_id
AnonymousToId ==
    /\ cin.kind \in {"AnonymousFrameHeader", "any AnonymousFrameHeader"}
    /\ cout.kind = "none"
    /\ cout' = [kind |-> cin.kind,
                id |-> AnonymousFrameHeader_to_id(cin.priority, cin.discriminator, cin.type_id)]
    /\ UNCHANGED <<cin, fgVars, txVars, rxVars>>

\* ServiceFrameHeader::to_id
ServiceToId ==
    /\ cin.kind = "ServiceFrameHeader" /\ cout.kind = "none"
    /\ cout' = [kind |-> cin.kind,
                id |-> ServiceFrameHeader_to_id(cin.priority, cin.type_id,
                                                cin.request_not_response,
                                                cin.destination_node, cin.source_node)]
    /\ UNCHANGED <<cin, fgVars, txVars, rxVars>>

\* Priority(a) compared with Priority(b), on frame ids and on frames
PriorityCompare ==
    /\ cin.kind = "Priority" /\ cout.kind = "none"
    /\ LET f == [id |-> cin.a, data |-> cin.data_a]
           g == [id |-> cin.b, data |-> cin.data_b]
       IN cout' = [kind |-> cin.kind,
                   cmp |-> Priority_cmp(cin.a, cin.b),
                   cmp_swapped |-> Priority_cmp(cin.b, cin.a),
                   eq |-> Priority_eq(cin.a, cin.b),
                   frame_cmp |-> PriorityFrame_cmp(f, g),
                   frame_cmp_swapped |-> PriorityFrame_cmp(g, f),
                   frame_eq |-> PriorityFrame_eq(f, g)]
    /\ UNCHANGED <<cin, fgVars, txVars, rxVars>>

\* the filter of subscribe::<T>() applied to the id of a message frame of a
\* type id, or of a service frame (whose type id has 8 bits)
SubscribeFilterMatch ==
    /\ cin.kind = "subscribe" /\ cout.kind = "none"
    /\ LET id == IF cin.service
                 THEN ServiceFrameHeader_to_id(cin.priority, cin.type_id % Pow2(8), TRUE,
                                               cin.source_node, cin.source_node)
                 ELSE MessageFrameHeader_to_id(cin.priority, cin.type_id, cin.source_node)
       IN cout' = [kind |-> cin.kind, id |-> id,
                   matched |-> is_match(subscribe_filter(cin.subscribed), id)]
    /\ UNCHANGED <<cin, fgVars, txVars, rxVars>>

\* a structure framed by the frame generator and the payload bytes of its
\* frames parsed into a new structure of the same type
StructRoundTrip ==
    /\ cin.kind = "structure" /\ cout.kind = "none"
    /\ LET frames  == frames_of(from_uavcan_frame(NodeStatusId,
                                                  SerializedStructure(cin.fields), cin.tid))
           payload == Payload(frames)
       IN \E parsed \in Parser_parse(Blank(cin.fields), payload) :
            cout' = [kind |-> cin.kind, frames |-> Len(frames), payload |-> payload,
                     panicked |-> parsed.panicked, fields |-> parsed.fields]
    /\ UNCHANGED <<cin, fgVars, txVars, rxVars>>

\* NodeID::new(id) and the conversions of the NodeID it returns
NodeIDNew ==
    /\ cin.kind = "NodeID::new" /\ cout.kind = "none"
    /\ cout' = IF NodeID_new_panics(cin.id)
               THEN [kind |-> cin.kind, panicked |-> TRUE]
               ELSE [kind |-> cin.kind, panicked |-> FALSE,
                     u8 |-> u8_from_NodeID(NodeID_new(cin.id)),
                     u32 |-> u32_from_NodeID(NodeID_new(cin.id))]
    /\ UNCHANGED <<cin, fgVars, txVars, rxVars>>

\* IntX::new(x, 0).set_from_bytes(buffer)
IntXSetFromBytes ==
    /\ cin.kind = "IntX::set_from_bytes" /\ cout.kind = "none"
    /\ \E o \in IntX_set_from_bytes(IntX_new(cin.x, 0), cin.buffer) :
         cout' = [kind |-> cin.kind, panicked |-> o.panicked,
                  x |-> o.self.x, value |-> o.self.value]
    /\ UNCHANGED <<cin, fgVars, txVars, rxVars>>

\* s.primitive_field_as_mut(field_number).unwrap().primitive_type_as_mut(0)
\* .unwrap().set_from_bytes(buffer) on a structure of five UintX whose field
\* field_number has the width x
UintXSetFromBytes ==
    /\ cin.kind = "UintX::set_from_bytes" /\ cout.kind = "none"
    /\ LET s == [NodeStatus(0, 0, 0, 0, 0) EXCEPT ![cin.field_number + 1].x = cin.x]
           i == primitive_field_as_mut(s, cin.field_number)
           t == primitive_type_as_mut(s[i], 0)
       IN \E o \in UintX_set_from_bytes(t[1], cin.buffer) :
            cout' = [kind |-> cin.kind, panicked |-> o.panicked,
                     before |-> s, fields |-> [s EXCEPT ![i] = o.self]]
    /\ UNCHANGED <<cin, fgVars, txVars, rxVars>>

\* set_from_bytes(buffer) of a Float16, a Float32 or a Float64
FloatSetFromBytes ==
    /\ cin.kind = "Float::set_from_bytes" /\ cout.kind = "none"
    /\ cout' = [kind |-> cin.kind,
                value |-> IF cin.type = "Float16" THEN Float16_set_from_bytes(cin.buffer)
                          ELSE IF cin.type = "Float32" THEN Float32_set_from_bytes(cin.buffer)
                          ELSE Float64_set_from_bytes(cin.buffer)]
    /\ UNCHANGED <<cin, fgVars, txVars, rxVars>>

\* Bool::new(before).set_from_bytes(buffer)
BoolSetFromBytes ==
    /\ cin.kind = "Bool::set_from_bytes" /\ cout.kind = "none"
    /\ cout' = [kind |-> cin.kind,
                value |-> Bool_set_from_bytes(Bool_new(cin.before), cin.buffer).value]
    /\ UNCHANGED <<cin, fgVars, txVars, rxVars>>

CodecNext ==
    \/ StructRoundTrip
    \/ FloatSetFromBytes
    \/ BoolSetFromBytes
    \/ IntXSetFromBytes
    \/ UintXSetFromBytes
    \/ NodeIDNew
    \/ TailByteNew
    \/ TailByteFrom
    \/ CoreTailByteRoundTrip
    \/ MessageToId
    \/ AnonymousToId
    \/ ServiceToId
    \/ PriorityCompare
    \/ SubscribeFilterMatch

SpecCodec == CodecInit /\ [][CodecNext]_vars

-----------------------------------------------------------------------------
(* Properties of the encoding and decoding functions *)

\* C17: the byte of TailByte::new(sot, eot, toggle, t) is
\* 128*sot + 64*eot + 32*toggle + t and the four accessors give back sot, eot,
\* toggle and t; for every byte b, transfer_id() does not panic and the u8 of
\* TailByte::from(b) is b.
C17_TailByteLayout ==
    /\ cout.kind = "TailByte::new" =>
          /\ ~cout.panicked
          /\ cout.byte = 128 * BoolAsU8(cin.sot) + 64 * BoolAsU8(cin.eot)
                             + 32 * BoolAsU8(cin.toggle) + cin.tid
          /\ cout.start_of_transfer = cin.sot
          /\ cout.end_of_transfer = cin.eot
          /\ cout.toggle = cin.toggle
          /\ cout.transfer_id = cin.tid
    /\ cout.kind = "TailByte::from" =>
          /\ ~cout.panicked
          /\ cout.byte = cin.byte
          /\ cout.transfer_id = cin.byte % 32

\* C17 witness: TailByte::new(true, false, true, 31) has given the byte 191
C17_Witness ==
    /\ cout.kind = "TailByte::new"
    /\ cin.sot /\ ~cin.eot /\ cin.toggle /\ cin.tid = 31
    /\ cout.byte = 191

\* C18: a tail byte of the core crate converted to u8 and back has the same
\* start_of_transfer, end_of_transfer, toggle and transfer_id.
C18_CoreTailByteRoundTrip ==
    cout.kind = "core TailByte" =>
        cout.tail = TailByte(cin.sot, cin.eot, cin.toggle, cin.tid)

\* C19: the id of a message frame header is p*2^26 + t*2^8 + s.
C19_MessageIdLayout ==
    cout.kind = "MessageFrameHeader" =>
        cout.id = cin.priority * Pow2(26) + cin.type_id * Pow2(8) + cin.source_node

\* C19, amended: the id of a message frame header is p*2^24 + t*2^8 + s: the
\* priority in the bits starting at bit 24, the type id in bits 23..8, 0 in
\* bit 7 and the source node in bits 6..0, each recovered from the id.
C19_MessageIdLayout24 ==
    cout.kind = "MessageFrameHeader" =>
        /\ cout.id = cin.priority * Pow2(24) + cin.type_id * Pow2(8) + cin.source_node
        /\ cout.id \div Pow2(24) = cin.priority
        /\ (cout.id \div Pow2(8)) % Pow2(16) = cin.type_id
        /\ (cout.id \div Pow2(7)) % 2 = 0
        /\ cout.id % Pow2(7) = cin.source_node

\* C19 witness: the header of priority 7, type 341, node 32 has been encoded
C19_Witness ==
    /\ cout.kind = "MessageFrameHeader"
    /\ cin.priority = 7 /\ cin.type_id = 341 /\ cin.source_node = 32
    /\ cout.id = 117527840

\* C20: the id of an anonymous frame header has the discriminator in the 14
\* bits starting at bit 10, the low 2 bits of the type id in bits 9..8 and 0
\* in bits 7..0.
C20_AnonymousIdLayout ==
    cout.kind = "AnonymousFrameHeader" =>
        /\ (cout.id \div Pow2(10)) % Pow2(14) = cin.discriminator
        /\ (cout.id \div Pow2(8)) % 4 = cin.type_id % 4
        /\ cout.id % Pow2(8) = 0

\* bit n of a natural
Bit(value, n) == (value \div Pow2(n)) % 2

\* C21: every id of a message or anonymous frame header has bit 7 = 0,
\* whatever the field values; every id of a service frame header has bit 7 = 1,
\* the type id in bits 23..16, the request flag in bit 15, the destination
\* node in bits 14..8 and the source node in bits 6..0.
C21_ServiceBit ==
    /\ cout.kind \in {"MessageFrameHeader", "any MessageFrameHeader",
                      "AnonymousFrameHeader", "any AnonymousFrameHeader"} =>
          Bit(cout.id, 7) = 0
    /\ cout.kind = "ServiceFrameHeader" =>
          /\ Bit(cout.id, 7) = 1
          /\ (cout.id \div Pow2(16)) % Pow2(8) = cin.type_id
          /\ Bit(cout.id, 15) = BoolAsU8(cin.request_not_response)
          /\ (cout.id \div Pow2(8)) % Pow2(7) = cin.destination_node % Pow2(7)
          /\ cout.id % Pow2(7) = cin.source_node % Pow2(7)

\* C21 witness: a service request of type 200 from node 127 to node 1 has
\* been encoded, and its id has bit 7 set
C21_Witness ==
    /\ cout.kind = "ServiceFrameHeader"
    /\ cin.type_id = 200 /\ cin.request_not_response
    /\ cin.destination_node = 1 /\ cin.source_node = 127 /\ cin.priority = 0
    /\ cout.id = 200 * Pow2(16) + Pow2(15) + Pow2(8) + Pow2(7) + 127

\* C22: Priority(a) < Priority(b) exactly when id a > id b, and Priority(a) ==
\* Priority(b) exactly when the ids are equal, for frame ids and for frames
\* whatever their data; the order is total (comparing the other way round gives
\* the reverse) and Equal exactly when ==.
C22_PriorityMonotonic ==
    cout.kind = "Priority" =>
        /\ (cout.cmp = "Less") <=> (cin.a > cin.b)
        /\ (cout.cmp = "Greater") <=> (cin.a < cin.b)
        /\ cout.eq <=> (cin.a = cin.b)
        /\ (cout.cmp = "Equal") <=> cout.eq
        /\ cout.cmp_swapped = Ordering_reverse(cout.cmp)
        /\ cout.frame_cmp = cout.cmp
        /\ cout.frame_cmp_swapped = cout.cmp_swapped
        /\ cout.frame_eq = cout.eq

\* C22 witness: Priority of frame id 0 has compared greater than Priority of
\* frame id 1, on frames of different data
C22_Witness ==
    /\ cout.kind = "Priority"
    /\ cin.a = 0 /\ cin.b = 1 /\ cin.data_a # cin.data_b
    /\ cout.cmp = "Greater" /\ cout.frame_cmp = "Greater" /\ ~cout.eq

\* C23: the filter of subscribe::<T>() matches a frame id exactly when it is
\* the id of a message frame whose 16-bit data type id is T::TYPE_ID, whatever
\* the priority and the source node; it matches no service frame.
C23_FilterMatchesTypeId ==
    cout.kind = "subscribe" =>
        (cout.matched <=> (~cin.service /\ cin.type_id = cin.subscribed))

\* C24: a structure that was framed and whose payload bytes were parsed back
\* is equal to the original field for field, and the NodeStatus {1,2,3,4,5}
\* is carried as the bytes 1,0,0,0,0x8E,5,0
C24_RoundTrip ==
    cout.kind = "structure" =>
        /\ ~cout.panicked
        /\ cout.fields = cin.fields
        /\ (cin.fields = NodeStatus(1, 2, 3, 4, 5) => cout.payload = <<1, 0, 0, 0, 142, 5, 0>>)

\* C25: NodeID::new(id) panics exactly when id is 0 or above 127; a NodeID
\* that was built converts to the u8 and the u32 equal to id, which is in 1..127
C25_NodeIdRange ==
    cout.kind = "NodeID::new" =>
        /\ cout.panicked <=> (cin.id = 0 \/ cin.id > 127)
        /\ ~cout.panicked =>
              /\ cout.u8 = cin.id /\ cout.u32 = cin.id
              /\ cout.u8 \in 1..127

\* NodeID::new(127) returned a NodeID that converts to 127
C25_Witness ==
    /\ cout.kind = "NodeID::new"
    /\ cin.id = 127
    /\ ~cout.panicked
    /\ cout.u32 = 127

\* bit n of the little-endian buffer
BufferBit(buffer, n) == (buffer[n \div 8 + 1] \div Pow2(n % 8)) % 2

\* C26: IntX::set_from_bytes does not panic, keeps the width and sets the
\* value to the low x bits of the little-endian buffer, sign-extended from
\* bit x-1
C26_SignExtended ==
    cout.kind = "IntX::set_from_bytes" =>
        /\ ~cout.panicked
        /\ cout.x = cin.x
        /\ cout.value = [n \in 1..U64Bits |->
                           IF n <= cin.x THEN BufferBit(cin.buffer, n - 1)
                           ELSE BufferBit(cin.buffer, cin.x - 1)]

\* C27: UintX::set_from_bytes, reached through primitive_field_as_mut(i) and
\* primitive_type_as_mut(0), does not panic and sets the value of field i to
\* the low x bits of the little-endian buffer, zero above them; the width of
\* the field and every other field are left as they were
C27_ZeroExtended ==
    cout.kind = "UintX::set_from_bytes" =>
        /\ ~cout.panicked
        /\ cout.fields = [cout.before EXCEPT ![cin.field_number + 1].value =
                             [n \in 1..U64Bits |->
                                 IF n <= cin.x THEN BufferBit(cin.buffer, n - 1) ELSE 0]]

\* a three bit field, the fourth of the structure, was set from the bytes
\* 255, 255, ... and holds 7
C27_Witness ==
    /\ cout.kind = "UintX::set_from_bytes"
    /\ cin.x = 3 /\ cin.field_number = 3
    /\ cin.buffer[1] = 255 /\ cin.buffer[2] = 255
    /\ cout.fields[4] = UintX_new(3, 7)
    /\ cout.fields[1] = UintX_new(32, 0)

\* the transfers with a buffered start frame and no buffered end frame: the
\* receive sessions in progress
PendingSessions(buf) ==
    {full_id(buf[j]) : j \in {k \in 1..Len(buf) :
        /\ is_start_frame(buf[k])
        /\ ~\E e \in 1..Len(buf) : is_end_frame(buf[e]) /\ full_id(buf[e]) = full_id(buf[k])}}

\* C28: with a session table of size 2, no more than two receive sessions are
\* in progress: the start frame of a third transfer evicts the oldest one
C28_SessionsBounded == Cardinality(PendingSessions(rxbuf)) <= 2

\* the body bytes the frames before frame k carry: P-3 in the first frame and
\* P-1 in every frame after it
CarriedBefore(k) ==
    IF k = 1 THEN 0 ELSE (MAX_DATA_LENGTH - 3) + (k - 2) * (MAX_DATA_LENGTH - 1)

\* C29: in a multi-frame transfer the first frame holds the first P-3 body
\* bytes in data[2..P-1], a middle frame the next P-1 body bytes, the last frame
\* the remaining bytes in (remaining_bits+7)/8 + 1 data bytes with the tail
\* byte last; the payloads in emission order are the serialized body
C29_BodyPartition ==
    MultiFrame =>
        /\ \A k \in 1..Len(emitted) :
              LET d         == emitted[k].data
                  before    == CarriedBefore(k)
                  remaining == body.bits - 8 * before
              IN IF k = 1
                 THEN /\ Len(d) = MAX_DATA_LENGTH
                      /\ SubSeq(d, 3, MAX_DATA_LENGTH - 1)
                            = SubSeq(body.bytes, 1, MAX_DATA_LENGTH - 3)
                 ELSE IF remaining > PayloadBits
                 THEN /\ Len(d) = MAX_DATA_LENGTH
                      /\ SubSeq(d, 1, MAX_DATA_LENGTH - 1)
                            = SubSeq(body.bytes, before + 1, before + MAX_DATA_LENGTH - 1)
                 ELSE /\ Len(d) = (remaining + 7) \div 8 + 1
                      /\ SubSeq(d, 1, Len(d) - 1)
                            = SubSeq(body.bytes, before + 1, Len(body.bytes))
                      /\ TailByteFromU8(TailOf(emitted[k])).end_of_transfer
                      /\ TailByteFromU8(TailOf(emitted[k])).transfer_id = fg.transfer_id
        /\ remaining_bits(fg.serializer) = 0 => Payload(emitted) = body.bytes

\* a body of 20 bytes was emitted as a first frame, two middle frames and a
\* last frame of one body byte and the tail byte
C29_Witness ==
    /\ body.bits = 160
    /\ Len(emitted) = 4
    /\ Len(emitted[4].data) = 2
    /\ ret = "None"

\* C30: a receive call that found an end frame takes out of the buffer only
\* frames with the frame id and the transfer id of that end frame: the frames
\* of every other full transfer id, those with the same frame id included, are
\* not fed to the deframer and stay buffered in order
C30_CorrelatedByFullId ==
    [][(rop' = "receive" /\ find_end_frame(rxbuf) # 0) =>
          \A e \in {rxbuf[find_end_frame(rxbuf)]} :
             SelectSeq(rxbuf', LAMBDA f : full_id(f) # full_id(e))
                = SelectSeq(rxbuf, LAMBDA f : full_id(f) # full_id(e))]_vars

\* C31: the bit pattern a Float16, Float32 or Float64 holds after
\* set_from_bytes is the little-endian integer of the first 2, 4 or 8 bytes
\* of the buffer: byte i gives bits 8i..8i+7 and no bit is changed
C31_FloatRawBits ==
    cout.kind = "Float::set_from_bytes" =>
        cout.value = [n \in 1..U64Bits |->
                        IF n <= FloatBitlength(cin.type)
                        THEN BufferBit(cin.buffer, n - 1) ELSE 0]

\* C32: after Bool::set_from_bytes the value is true exactly when bit 0 of
\* buffer[0] is 1, whatever it was before
C32_BoolFromBit0 ==
    cout.kind = "Bool::set_from_bytes" => cout.value = <<BufferBit(cin.buffer, 0)>>

\* C33: every emitted frame has the frame id the generator was built with and
\* 2 to max_data_length data bytes; a call changes neither the id nor the
\* transfer id nor the body, a call that emits a frame sets started, flips the
\* toggle and moves the serializer forward, and a call returning None changes
\* nothing
C33_GeneratorInvariants ==
    [][/\ \A k \in 1..Len(emitted') :
             /\ emitted'[k].id = fg.id
             /\ Len(emitted'[k].data) >= 2
             /\ Len(emitted'[k].data) <= MAX_DATA_LENGTH
       /\ fg.id = NodeStatusId
       /\ fg'.id = fg.id
       /\ fg'.transfer_id = fg.transfer_id
       /\ fg'.serializer.bits = fg.serializer.bits
       /\ fg'.serializer.bytes = fg.serializer.bytes
       /\ ret' = "Some" =>
             /\ fg'.started
             /\ fg'.toggle = ~fg.toggle
             /\ fg'.serializer.pos > fg.serializer.pos
       /\ ret' = "None" => fg' = fg]_vars

\* the fourth frame of a 20 byte body was emitted, with two data bytes
C33_Witness ==
    /\ body.bits = 160
    /\ ret = "Some"
    /\ Len(emitted) = 4
    /\ emitted[4].id = NodeStatusId
    /\ Len(emitted[4].data) = 2
    /\ fg.started

====
